---- MODULE Spec2Model ----
(***************************************************************************)
(* Web parser service: BrowserManager (app/browser.py), LLMExtractor       *)
(* (app/extractor.py) and the POST /parse handler (app/main.py).           *)
(*                                                                         *)
(* Every request is an asyncio task.  A task runs without interruption     *)
(* from one await to the next, so each action below is the code between    *)
(* two awaits; the value of req[c].pc names the await the task is          *)
(* suspended at.                                                           *)
(***************************************************************************)
EXTENDS Integers, Sequences, FiniteSets, TLC

\* ------------------------------------------------------------- bounds
NumCallers == 2
MaxStarts == 2

Callers == 1..NumCallers

\* -------------------------------------------------- program constants
\* Seeded fault: the loop of browser.py:64 runs once more.
MoreAttempts == 2 + 1

max_attempts == 2
MinHtmlLen == 100
MinTextLen == 10
context_window == 200
MinCleanedLen == 100

Min(a, b) == IF a < b THEN a ELSE b
Max(a, b) == IF a > b THEN a ELSE b

\* ------------------------------------------------------------- values
\* Exceptions.  type is the Python class the handlers dispatch on, cause is
\* what the backend did, attempt the attempt it happened in, wrapped tells
\* the RuntimeError built at browser.py:136 from the ones built elsewhere.
NoError == [type |-> "none", cause |-> "none", attempt |-> 0, wrapped |-> FALSE]
Err(t, cause, a, w) == [type |-> t, cause |-> cause, attempt |-> a, wrapped |-> w]

\* The error of browser.py:155, raised when the loop ends with no last_error.
GenericError == Err("RuntimeError", "all_attempts_failed", 0, FALSE)

\* Strings are kept by their lengths: len is len(s), strip is len(s.strip()).
NoStr == [src |-> "none", len |-> 0, strip |-> 0]

\* What page.content() can give: len is len(html); parsed tells whether
\* Strategy A finds text in it, and main is the length of that text.
Htmls ==
  { [len |-> 0,    parsed |-> FALSE, main |-> 0],
    [len |-> 99,   parsed |-> TRUE,  main |-> 20],
    [len |-> 100,  parsed |-> FALSE, main |-> 0],
    [len |-> 5000, parsed |-> TRUE,  main |-> 0],
    [len |-> 5000, parsed |-> TRUE,  main |-> 800] }

NoHtml == [len |-> -1, parsed |-> FALSE, main |-> 0]

\* What locator("body").inner_text() can give: len is len(text), strip is
\* len(text.strip()), norm the length of the whitespace-normalized text and
\* trail tells whether that ends in a space.  tokLen = 0 when the text holds
\* no target token, else it holds one token of tokLen characters at offset
\* tokAt of the normalized text, whose label has labelLen characters.
Text(l, st, n, tr, at, tl, ll) ==
  [len |-> l, strip |-> st, norm |-> n, trail |-> tr,
   tokAt |-> at, tokLen |-> tl, labelLen |-> ll]

Texts ==
  { Text(0,   0,   0,   0, 0,   0, 0),
    Text(3,   0,   1,   1, 0,   0, 0),
    Text(40,  40,  40,  0, 7,   3, 11),
    Text(87,  85,  86,  1, 7,   3, 11),
    Text(86,  86,  86,  0, 7,   3, 11),
    Text(600, 598, 590, 1, 300, 3, 11),
    Text(600, 598, 590, 1, 0,   0, 0) }

NoText == Text(-1, 0, 0, 0, 0, 0, 0)

\* settings.OPENAI_MODEL, config.py:14: the default model, which takes a
\* custom temperature, and a model of the o1 family.  A name stands for the
\* names that start with it, extractor.py:119-121.
Models == { "gpt-4-turbo-preview", "o1" }

models_without_temperature == { "o1", "gpt-5-nano" }

\* The text of an exception of the LLM call, as far as extractor.py:131-132
\* reads it: whether it holds "temperature" and whether it holds
\* "unsupported".  asyncio.TimeoutError has the empty text.
ApiError(t, u) == [temperature |-> t, unsupported |-> u]

ApiErrors == { ApiError(t, u) : t \in BOOLEAN, u \in BOOLEAN }

NoApiError == ApiError(FALSE, FALSE)

\* A reply of the LLM, response.choices[0].message.content: text tells
\* whether the content is empty (None or ""), is valid JSON as a whole, or is
\* anything else; blocks are its fenced code blocks in the order of the text,
\* each opened by ``` with the tag json or with no tag, closed by the next
\* ```, and holding valid JSON or not.
Block(tag, valid) == [tag |-> tag, valid |-> valid]

Reply(text, blocks) == [text |-> text, blocks |-> blocks]

Replies ==
  { Reply("empty", << >>),
    Reply("json",  << >>),
    Reply("other", << >>),
    Reply("other", << Block("json", TRUE) >>),
    Reply("other", << Block("none", TRUE) >>),
    Reply("other", << Block("json", FALSE) >>),
    Reply("other", << Block("none", FALSE), Block("none", TRUE) >>),
    Reply("other", << Block("none", TRUE),  Block("json", TRUE) >>),
    Reply("other", << Block("none", TRUE),  Block("json", FALSE) >>) }

NoReply == Reply("none", << >>)

\* One entry of the per-call log of LLM calls: whether request_params held
\* a temperature, and what the call gave ("reply", "timeout" or "error").
Call(t, got, r, e) ==
  [temperature |-> t, got |-> got, reply |-> r, error |-> e]

\* The value extract_data returns: the parse of the whole reply (Whole) or
\* of the inner content of its i-th fenced block (i); 0 is no value.
Whole == -1

\* No preparser call is under way.
NoProbe == [fn |-> "none"]

\* One entry of the per-call page ledger, one entry per attempt: whether
\* new_page() handed a page over, how often close() was called on it, which
\* backend failure ended the attempt, whether the retry delay was slept, and
\* the length of the HTML the attempt validated (-1: it validated none);
\* whether page.route() has registered the handler, the class of the
\* exception goto raised, and how the wait for the body selector ended.
NewAttempt ==
  [opened |-> FALSE, closes |-> 0, fault |-> "none", slept |-> FALSE,
   html |-> -1, routed |-> FALSE, nav |-> "none", settle |-> "none"]

\* The locals of one request.
IdleReq ==
  [ pc |-> "idle", op |-> "none", attempt |-> 0, page |-> FALSE,
    last_error |-> NoError, after |-> "none", ledger |-> << >>,
    html_content |-> NoHtml, text_content |-> NoText,
    cleaned_content |-> NoStr, warned |-> FALSE,
    cancelled_at |-> "none", init |-> "none",
    temperature |-> FALSE, llm_log |-> << >>, result |-> 0,
    outcome |-> "none", error |-> NoError, status |-> 0 ]

VARIABLES
  _playwright,      \* BrowserManager._playwright: 0 is None, n the n-th driver
  _browser,         \* BrowserManager._browser: 0 is None, n the n-th process
  started,          \* playwright drivers started so far
  launched,         \* browser processes launched so far (none is closed)
  _prompt_template, \* LLMExtractor._prompt_template is not None
  req,              \* the locals of each caller's request
  OPENAI_MODEL,     \* settings.OPENAI_MODEL, read once from the environment
  output2,          \* the content part of the file output2.txt, NoStr if absent
  probe             \* the argument and the result of one call under study

vars ==
  << _playwright, _browser, started, launched, _prompt_template, req,
     OPENAI_MODEL, output2, probe >>

shared ==
  << _playwright, _browser, started, launched, _prompt_template,
     OPENAI_MODEL, output2, probe >>

Init ==
  /\ _playwright = 0
  /\ _browser = 0
  /\ started = 0
  /\ launched = 0
  /\ _prompt_template = FALSE
  /\ req = [c \in Callers |-> IdleReq]
  /\ OPENAI_MODEL \in Models
  /\ output2 = NoStr
  /\ probe = NoProbe

\* Seeded fault: initialize() without its test of browser.py:25.
NeedsInitAlways == TRUE

\* ------------------------------------------- BrowserManager.initialize
\* The test of browser.py:25, repeated at browser.py:58.
NeedsInit == _browser = 0

\* What an exception of initialize() becomes: initialize() and the lazy call
\* at browser.py:59 catch nothing, parse_website maps it at main.py:86-88.
InitFailed(s) ==
  [s EXCEPT !.pc = "done", !.outcome = "raised", !.init = "failed",
            !.error = Err("Error", "initialize", 0, FALSE),
            !.status = IF s.op = "parse" THEN 500 ELSE 0]

\* ------------------------------------ BrowserManager.get_page_content
Cur(s) == s.ledger[Len(s.ledger)]

SetCur(s, e) == [s.ledger EXCEPT ![Len(s.ledger)] = e]

\* except (TimeoutError, ValueError, RuntimeError), browser.py:126
Recognized(t) == t \in {"TimeoutError", "ValueError", "RuntimeError"}

\* Seeded fault: page is not set to None when an iteration begins.
StartAttemptKeepsPage(s, n) ==
  [s EXCEPT !.pc = "new_page", !.attempt = n,
            !.after = "none", !.ledger = Append(@, NewAttempt)]

\* One iteration of the for loop begins: page = None, then the await of
\* new_page(), browser.py:64-68.
StartAttempt(s, n) ==
  [s EXCEPT !.pc = "new_page", !.attempt = n, !.page = FALSE,
            !.after = "none", !.ledger = Append(@, NewAttempt)]

\* Seeded fault: the loop ends with the error of browser.py:155 whatever
\* last_error holds.
LoopExitGeneric(s) ==
  [s EXCEPT !.pc = "gpc_done", !.outcome = "raised", !.error = GenericError]

\* After the loop, browser.py:151-155.
LoopExit(s) ==
  [s EXCEPT !.pc = "gpc_done", !.outcome = "raised",
            !.error = IF s.last_error # NoError THEN s.last_error
                      ELSE GenericError]

\* What follows the finally block: the next iteration or the end of the loop
\* ("continue"), the exception or the return value it suspended.
After(s, k) ==
  CASE k = "continue" ->
         IF s.attempt < max_attempts THEN StartAttempt(s, s.attempt + 1)
         ELSE LoopExit(s)
    [] k = "raise" ->
         [s EXCEPT !.pc = "gpc_done", !.outcome = "raised",
                   !.error = s.last_error]
    [] k = "return" ->
         [s EXCEPT !.pc = "gpc_done", !.outcome = "returned"]
    [] k = "cancel" ->
         [s EXCEPT !.pc = "gpc_done", !.outcome = "cancelled"]

\* Seeded fault: the page is closed on every path but the re-raise of
\* browser.py:141.
FinallySkipsOnRaise(s, k) ==
  IF s.page /\ k # "raise"
  THEN [s EXCEPT !.pc = "close", !.after = k,
                 !.ledger = SetCur(s, [Cur(s) EXCEPT !.closes = @ + 1])]
  ELSE After(s, k)

\* Seeded fault: the page is closed by the handlers, not by a finally block,
\* so a CancelledError passes it by.
FinallySkipsOnCancel(s, k) ==
  IF s.page /\ k # "cancel"
  THEN [s EXCEPT !.pc = "close", !.after = k,
                 !.ledger = SetCur(s, [Cur(s) EXCEPT !.closes = @ + 1])]
  ELSE After(s, k)

\* finally: if page: await page.close(), browser.py:143-147.
Finally(s, k) ==
  IF s.page
  THEN [s EXCEPT !.pc = "close", !.after = k,
                 !.ledger = SetCur(s, [Cur(s) EXCEPT !.closes = @ + 1])]
  ELSE After(s, k)

\* The error kept at browser.py:127 and browser.py:136.
Classify(t, cause, a) ==
  IF Recognized(t) THEN Err(t, cause, a, FALSE)
  ELSE Err("RuntimeError", cause, a, TRUE)

\* Seeded fault: the second handler re-raises at once, whatever the attempt.
RaiseUnretried(s, t, cause) ==
  LET s1 == [s EXCEPT !.last_error = Classify(t, cause, s.attempt),
                      !.ledger = SetCur(s, [Cur(s) EXCEPT !.fault = cause]),
                      !.html_content = NoHtml, !.text_content = NoText]
  IN  IF ~Recognized(t) THEN Finally(s1, "raise")
      ELSE IF s.attempt < max_attempts THEN [s1 EXCEPT !.pc = "retry_sleep"]
           ELSE Finally(s1, "continue")

\* An exception of class t leaves the try body: the two handlers,
\* browser.py:126-141.
Raise(s, t, cause) ==
  LET s1 == [s EXCEPT !.last_error = Classify(t, cause, s.attempt),
                      !.ledger = SetCur(s, [Cur(s) EXCEPT !.fault = cause]),
                      !.html_content = NoHtml, !.text_content = NoText]
  IN  IF s.attempt < max_attempts
      THEN [s1 EXCEPT !.pc = "retry_sleep"]
      ELSE IF Recognized(t) THEN Finally(s1, "continue")
           ELSE Finally(s1, "raise")

\* The classes of the exceptions page.goto() raises: the timeout of
\* playwright and its Error, neither of which is a class of browser.py:126.
NavFailures == { "PlaywrightTimeoutError", "Error" }

\* Seeded fault: only the timeout of goto is translated.
NavClassTimeoutOnly(t) ==
  IF t = "PlaywrightTimeoutError" THEN "TimeoutError" ELSE t

\* The except clauses around goto, browser.py:88-94: the class raised in
\* place of an exception of class t.
NavClass(t) ==
  IF t = "PlaywrightTimeoutError" THEN "TimeoutError" ELSE "ValueError"

\* goto raises an exception of class t.
NavFailed(s, t) ==
  Raise([s EXCEPT !.ledger = SetCur(s, [Cur(s) EXCEPT !.nav = t])],
        NavClass(t),
        IF t = "PlaywrightTimeoutError" THEN "nav_timeout" ELSE "nav_error")

\* Seeded fault: the timeout of wait_for_selector is not caught.
SettleTimedOutFatal(s) ==
  Raise([s EXCEPT !.ledger = SetCur(s, [Cur(s) EXCEPT !.settle = "timeout"])],
        "PlaywrightTimeoutError", "wait_for_selector")

\* wait_for_selector times out, browser.py:101-102: a warning, the sleep of
\* browser.py:100 is skipped and the extraction follows.
SettleTimedOut(s) ==
  [s EXCEPT !.pc = "content",
            !.ledger = SetCur(s, [Cur(s) EXCEPT !.settle = "timeout"])]

\* Seeded fault: a short text fails the attempt like a short HTML.
ValidateStrict(s, t) ==
  LET s1 == [s EXCEPT !.ledger =
                        SetCur(s, [Cur(s) EXCEPT !.html = s.html_content.len])]
  IN  IF \/ s.html_content.len = 0 \/ s.html_content.len < MinHtmlLen
         \/ t.len = 0 \/ t.strip < MinTextLen
      THEN Raise(s1, "ValueError", "empty_page")
      ELSE Finally([s1 EXCEPT !.text_content = t, !.warned = FALSE], "return")

\* The validation and the return, browser.py:112-124.
Validate(s, t) ==
  LET s1 == [s EXCEPT !.ledger =
                        SetCur(s, [Cur(s) EXCEPT !.html = s.html_content.len])]
  IN  IF s.html_content.len = 0 \/ s.html_content.len < MinHtmlLen
      THEN Raise(s1, "ValueError", "empty_page")
      ELSE Finally([s1 EXCEPT !.text_content = t,
                              !.warned = (t.len = 0 \/ t.strip < MinTextLen)],
                   "return")

\* --------------------------------------------- Strategy C and Strategy A
\* extract_targeted_content(text, context_window): the match expanded by the
\* window on both sides, clamped to the bounds of the normalized text, under
\* a bracketed label header ("[", label, "]", newline); the empty string when
\* the text holds no target token.  A region that reaches the end of a text
\* ending in a space ends in that space.
extract_targeted_content(t, w) ==
  IF t.tokLen = 0 THEN [src |-> "C", len |-> 0, strip |-> 0]
  ELSE LET lo == Max(0, t.tokAt - w)
           hi == Min(t.norm, t.tokAt + t.tokLen + w)
           n  == (t.labelLen + 3) + (hi - lo)
       IN  [src |-> "C", len |-> n,
            strip |-> IF hi = t.norm THEN n - t.trail ELSE n]

\* extract_main_content(html, text): the stripped text of what the parser
\* finds in the HTML, else text_content.strip().
extract_main_content(h, t) ==
  IF h.parsed /\ h.main > 0
  THEN [src |-> "A", len |-> h.main, strip |-> h.main]
  ELSE [src |-> "A", len |-> t.strip, strip |-> t.strip]

\* ------------------------------------------ LLMExtractor.extract_data
\* Seeded fault: the fallback is taken only when Strategy C returns nothing.
ChooseContentNonEmpty(h, t) ==
  LET c == extract_targeted_content(t, context_window)
  IN  IF c.len = 0 THEN extract_main_content(h, t) ELSE c

\* The choice of the content, extractor.py:56-61.
ChooseContent(h, t) ==
  LET c == extract_targeted_content(t, context_window)
  IN  IF c.len = 0 \/ c.strip < MinCleanedLen
      THEN extract_main_content(h, t)
      ELSE c

\* The division of the log line at extractor.py:64-68 is defined.
ReductionLogged(t) == t.len # 0

\* The classes an exception of class t is an instance of:
\* json.JSONDecodeError derives from ValueError.
Bases(t) ==
  IF t = "JSONDecodeError" THEN { "JSONDecodeError", "ValueError" } ELSE { t }

\* The except clauses of parse_website, main.py:77-88.
HttpStatus(t) ==
  CASE "TimeoutError" \in Bases(t) -> 504
    [] "ValueError" \in Bases(t) -> 400
    [] "FileNotFoundError" \in Bases(t) -> 500
    [] OTHER -> 500

\* An exception of class t leaves extract_data and reaches parse_website.
Fails(s, t, cause) ==
  [s EXCEPT !.pc = "done", !.outcome = "raised",
            !.error = Err(t, cause, 0, FALSE), !.status = HttpStatus(t)]

\* The except clauses that close extract_data, extractor.py:163-168: the
\* class of the exception that leaves it when one of class t was raised
\* inside its try block.
Reraise(t) ==
  CASE t = "asyncio.TimeoutError" -> "TimeoutError"
    [] Bases(t) \cap { "TimeoutError", "ValueError" } # {} -> t
    [] OTHER -> "RuntimeError"

\* extract_data is left: its locals are gone.
Leaves(s) ==
  [s EXCEPT !.html_content = NoHtml, !.text_content = NoText,
            !.cleaned_content = NoStr]

\* Seeded fault: the retry is made for every error that names the
\* temperature.
RetriesWithoutTemperatureLoose(e) == e.temperature

\* The test of extractor.py:131-132 on the text of the exception.
RetriesWithoutTemperature(e) == e.temperature /\ e.unsupported

\* Seeded fault: the fallback reads the first fenced block whatever its tag.
LocateFirst(r) == IF Len(r.blocks) > 0 THEN 1 ELSE 0

\* The fenced block that extractor.py:152-159 cuts out of a reply: the one
\* opened by the first "```json" of the text, or, when the text holds no
\* "```json", the one opened by its first "```"; 0 when it holds no fence.
LocateBlock(r) ==
  LET tagged == { i \in 1..Len(r.blocks) : r.blocks[i].tag = "json" }
  IN  IF tagged # {}
      THEN CHOOSE i \in tagged : \A j \in tagged : i <= j
      ELSE IF Len(r.blocks) > 0 THEN 1 ELSE 0

\* extractor.py:143-161 on the reply r, then the except clauses of
\* extractor.py:163-168 and of parse_website.
ParseReply(s, r) ==
  LET i == LocateBlock(r)
  IN  CASE r.text = "empty" ->
             Fails(Leaves(s), Reraise("ValueError"), "empty_response")
        [] r.text = "json" ->
             [Leaves(s) EXCEPT !.pc = "done", !.outcome = "returned",
                               !.result = Whole, !.status = 200]
        [] i > 0 /\ r.blocks[i].valid ->
             [Leaves(s) EXCEPT !.pc = "done", !.outcome = "returned",
                               !.result = i, !.status = 200]
        [] OTHER ->
             Fails(Leaves(s), Reraise("JSONDecodeError"), "invalid_json")

\* ----------------------------------------------------------- preparser
\* Strategy C on the level of intervals.  A visible text, once its
\* whitespace is normalized, is a sequence of words joined by single spaces.
\* A word is its length and the matches the token patterns find in it, each
\* with its offsets in the word and its label; the patterns are independent,
\* so two of them can match characters of the same word.
Match(start, end, label) == [start |-> start, end |-> end, label |-> label]

Word(len, matches) == [len |-> len, matches |-> matches]

Words ==
  { Word(3, { Match(0, 3, "AIRPORT:JFK") }),
    Word(5, { Match(0, 5, "FLIGHT:UA123"), Match(2, 5, "PRICE") }),
    Word(4, {}),
    Word(8, {}) }

\* The labels in the order they are sorted in a header.
LabelOrder == << "AIRPORT:JFK", "FLIGHT:UA123", "PRICE" >>

LabelRank(l) == CHOOSE i \in 1..Len(LabelOrder) : LabelOrder[i] = l

MaxWords == 3

Windows == { 0, 3 }

RECURSIVE SeqsUpTo(_, _)
SeqsUpTo(S, n) ==
  IF n = 0 THEN { << >> }
  ELSE LET shorter == SeqsUpTo(S, n - 1)
       IN  shorter \cup { Append(s, x) : s \in shorter, x \in S }

\* The offset of the i-th word in the normalized text, and its length.
RECURSIVE OffsetOf(_, _)
OffsetOf(words, i) ==
  IF i = 1 THEN 0 ELSE OffsetOf(words, i - 1) + words[i - 1].len + 1

NormLen(words) ==
  IF words = << >> THEN 0
  ELSE OffsetOf(words, Len(words)) + words[Len(words)].len

\* The scan: every match as an interval of the normalized text.
Scan(words) ==
  UNION { { Match(OffsetOf(words, i) + m.start, OffsetOf(words, i) + m.end,
                  m.label) : m \in words[i].matches } : i \in 1..Len(words) }

\* A match expanded by the context window w, clamped to the text bounds.
Expand(m, w, n) ==
  [lo |-> Max(0, m.start - w), hi |-> Min(n, m.end + w), labels |-> {m.label}]

Before(x, y) ==
  \/ x.lo < y.lo
  \/ x.lo = y.lo /\ x.hi < y.hi
  \/ x.lo = y.lo /\ x.hi = y.hi
       /\ \A a \in x.labels, b \in y.labels : LabelRank(a) <= LabelRank(b)

\* The expanded intervals sorted by start offset.
RECURSIVE SortByStart(_)
SortByStart(S) ==
  IF S = {} THEN << >>
  ELSE LET x == CHOOSE y \in S : \A z \in S : Before(y, z)
       IN  << x >> \o SortByStart(S \ {x})

\* Seeded fault: intervals that only touch are not merged.
TouchesStrict(x, last) == x.lo < last.hi

\* The next interval overlaps or touches the region being built.
Touches(x, last) == x.lo <= last.hi

\* The merge of the sorted intervals, accumulating the union of the labels.
RECURSIVE Merge(_, _)
Merge(s, acc) ==
  IF s = << >> THEN acc
  ELSE LET x == Head(s)
           n == Len(acc)
       IN  IF n > 0 /\ Touches(x, acc[n])
           THEN Merge(Tail(s),
                      [acc EXCEPT ![n] = [lo |-> @.lo,
                                          hi |-> Max(@.hi, x.hi),
                                          labels |-> @.labels \cup x.labels]])
           ELSE Merge(Tail(s), Append(acc, x))

\* The labels of a header, sorted.
RECURSIVE SortLabels(_)
SortLabels(L) ==
  IF L = {} THEN << >>
  ELSE LET l == CHOOSE a \in L : \A b \in L : LabelRank(a) <= LabelRank(b)
       IN  << l >> \o SortLabels(L \ {l})

\* A region as it is emitted: its header and the substring [lo, hi).
Emit(r) == [header |-> SortLabels(r.labels), lo |-> r.lo, hi |-> r.hi]

\* Seeded fault: a text without matches is returned whole.
extract_targeted_regions_whole(words, w) ==
  IF Scan(words) = {}
  THEN IF words = << >> THEN << >>
       ELSE << [header |-> << >>, lo |-> 0, hi |-> NormLen(words)] >>
  ELSE LET n == NormLen(words)
           merged == Merge(SortByStart({ Expand(m, w, n) : m \in Scan(words) }),
                           << >>)
       IN  [i \in 1..Len(merged) |-> Emit(merged[i])]

\* Strategy C: the regions whose headers and substrings, joined by blank
\* lines, are the output; no region is the empty string.
extract_targeted_regions(words, w) ==
  IF Scan(words) = {} THEN << >>
  ELSE LET n == NormLen(words)
           merged == Merge(SortByStart({ Expand(m, w, n) : m \in Scan(words) }),
                           << >>)
       IN  [i \in 1..Len(merged) |-> Emit(merged[i])]

\* An HTML document as Strategies A and B see it: the elements below body
\* in document order, each with its tag, the attributes the selectors read,
\* and the index of its parent element (0: its parent is body).
Shape(tag, role, class, id) ==
  [tag |-> tag, role |-> role, class |-> class, id |-> id]

\* The elements of the documents given to clean_html_for_llm.
CleanShapes ==
  { Shape(t, "", "", "") :
      t \in { "script", "style", "img", "svg", "image", "noscript", "p" } }

\* The elements of the documents given to extract_main_content.
MainShapes ==
  { Shape(t, "", "", "") : t \in { "main", "article", "nav", "p" } }
  \cup { Shape("div", "main", "", ""), Shape("div", "", "content", ""),
         Shape("div", "", "", "content") }

\* The tags whose elements have no element children: script and style hold
\* raw text, img and image are empty.
Leaf == { "script", "style", "img", "image" }

Elem(shape, parent) == [shape |-> shape, parent |-> parent]

MaxElems == 2

\* The elements of d a further element can be nested in, 0 for body.
Parents(d) == { q \in 0..Len(d) : q = 0 \/ d[q].shape.tag \notin Leaf }

RECURSIVE DocsUpTo(_, _)
DocsUpTo(S, n) ==
  IF n = 0 THEN { << >> }
  ELSE LET shorter == DocsUpTo(S, n - 1)
       IN  shorter \cup
           UNION { { Append(d, Elem(s, p)) : s \in S, p \in Parents(d) } :
                     d \in { e \in shorter : Len(e) = n - 1 } }

Docs(S) == DocsUpTo(S, MaxElems)

\* The element i and its ancestors.
RECURSIVE Chain(_, _)
Chain(doc, i) == IF i = 0 THEN {} ELSE {i} \cup Chain(doc, doc[i].parent)

\* The elements left once decompose() has run on every element whose tag
\* is in tags: an element goes with the element it is nested in.
Remaining(doc, tags) ==
  { i \in 1..Len(doc) : \A a \in Chain(doc, i) : doc[a].shape.tag \notin tags }

\* The parsing capabilities, preparser.py:7-23: whether selectolax and bs4
\* were imported, and what trafilatura.extract gives: "none" when it was not
\* imported, "nothing" when it returns None or "" or raises, else "found".
Caps(t, s, b) == [trafilatura |-> t, selectolax |-> s, bs4 |-> b]

AllCaps ==
  { Caps(t, s, b) :
      t \in { "none", "nothing", "found" }, s \in BOOLEAN, b \in BOOLEAN }

\* Seeded fault: the light cleanup leaves style elements in place.
CleanedTagsNoStyle(caps) ==
  IF caps.selectolax \/ caps.bs4
  THEN { "script", "img", "svg", "image", "noscript" }
  ELSE { "script", "img", "svg" }

\* The tags clean_html_for_llm removes: the selector of preparser.py:107
\* and the list of preparser.py:113, or the four patterns of
\* preparser.py:119-125, each of which removes an element from its start tag
\* to its end tag.
CleanedTags(caps) ==
  IF caps.selectolax \/ caps.bs4
  THEN { "script", "style", "img", "svg", "image", "noscript" }
  ELSE { "script", "style", "img", "svg" }

\* Strategy B: the elements of the markup it returns.
clean_html_for_llm(doc, caps) == Remaining(doc, CleanedTags(caps))

\* The tags extract_main_content removes, preparser.py:61 and 75.
Boilerplate ==
  { "script", "style", "nav", "footer", "header", "aside", "noscript" }

IsContainer(s) ==
  \/ s.tag \in { "main", "article" }
  \/ s.role = "main"
  \/ s.class = "content"
  \/ s.id = "content"

First(S) == CHOOSE i \in S : \A j \in S : i <= j

\* css_first of preparser.py:65: the first element in document order that
\* matches one of the selectors of the list; 0 when none does.
css_first(doc, left) ==
  LET found == { i \in left : IsContainer(doc[i].shape) }
  IN  IF found = {} THEN 0 ELSE First(found)

\* The chain of soup.find calls of preparser.py:79-80: the first main or
\* article, or else the first element with role main, or else the first of
\* class content, or else the first with id content; 0 when none is found.
soup_find(doc, left) ==
  LET tagged  == { i \in left : doc[i].shape.tag \in { "main", "article" } }
      byRole  == { i \in left : doc[i].shape.role = "main" }
      byClass == { i \in left : doc[i].shape.class = "content" }
      byId    == { i \in left : doc[i].shape.id = "content" }
  IN  CASE tagged # {}  -> First(tagged)
        [] byRole # {}  -> First(byRole)
        [] byClass # {} -> First(byClass)
        [] byId # {}    -> First(byId)
        [] OTHER        -> 0

\* What extract_main_content returns, preparser.py:40-90: src tells where
\* the text comes from, elem is the container (0: body), and len is the
\* length of the text when it is the visible text.
Main(src, elem, len) == [src |-> src, elem |-> elem, len |-> len]

\* text_content.strip() of preparser.py:57 and 90.
visible_text(t) == t.strip

extract_main_container(doc, caps, t) ==
  LET left == Remaining(doc, Boilerplate)
      c == IF caps.selectolax THEN css_first(doc, left)
           ELSE soup_find(doc, left)
  IN  CASE caps.trafilatura = "found" -> Main("trafilatura", 0, 0)
        [] ~caps.selectolax /\ ~caps.bs4 -> Main("text", 0, visible_text(t))
        [] c # 0 -> Main("container", c, 0)
        [] OTHER -> Main("body", 0, 0)

\* One call of a preparser function: its arguments, and its result once
\* it has returned.
Probes ==
  { [fn |-> "extract_targeted_content", words |-> ws, window |-> w,
     done |-> FALSE, ret |-> << >>] :
       ws \in SeqsUpTo(Words, MaxWords), w \in Windows }
  \cup { [fn |-> "clean_html_for_llm", doc |-> d, caps |-> k,
          done |-> FALSE, ret |-> {}] :
            d \in Docs(CleanShapes),
            k \in { a \in AllCaps : a.trafilatura = "none" } }
  \cup { [fn |-> "extract_main_content", doc |-> d, caps |-> k, text |-> t,
          done |-> FALSE, ret |-> Main("none", 0, 0)] :
            d \in Docs(MainShapes), k \in AllCaps,
            t \in { x \in Texts : x.tokLen = 0 } }

\* Everything but the preparser call.
service ==
  << _playwright, _browser, started, launched, _prompt_template, req,
     OPENAI_MODEL, output2 >>

Returned(r) == probe' = [probe EXCEPT !.done = TRUE, !.ret = r]

\* extract_targeted_content(text, context_window) runs.
TargetedCall ==
  /\ probe.fn = "extract_targeted_content" /\ ~probe.done
  /\ Returned(extract_targeted_regions(probe.words, probe.window))
  /\ UNCHANGED service

\* clean_html_for_llm(html) runs, preparser.py:93-126.
CleanCall ==
  /\ probe.fn = "clean_html_for_llm" /\ ~probe.done
  /\ Returned(clean_html_for_llm(probe.doc, probe.caps))
  /\ UNCHANGED service

\* extract_main_content(html, text) runs, preparser.py:26-90.
MainCall ==
  /\ probe.fn = "extract_main_content" /\ ~probe.done
  /\ Returned(extract_main_container(probe.doc, probe.caps, probe.text))
  /\ UNCHANGED service

\* Seeded fault: parse_website goes on to extract_data whatever became of
\* get_page_content.
RenderEnded(s) == s.outcome \in { "returned", "raised" }

\* get_page_content returned its pair, main.py:67: only then is
\* extract_data called, main.py:72.
RenderReturned(s) == s.outcome = "returned"

\* ------------------------------------------------------------ actions
At(c, l) == req[c].pc = l

Set(c, s) == req' = [req EXCEPT ![c] = s]

\* No request is in flight.
Quiet == \A d \in Callers : req[d].pc = "idle"

\* initialize() is called (the startup hook, main.py:33): the test of
\* browser.py:25, then the await of async_playwright().start().
CallInitialize(c) ==
  /\ At(c, "idle")
  /\ Set(c, IF NeedsInit
            THEN [req[c] EXCEPT !.op = "initialize", !.pc = "pw_start"]
            ELSE [req[c] EXCEPT !.op = "initialize", !.pc = "done",
                                !.init = "skipped", !.outcome = "returned"])
  /\ UNCHANGED shared

\* POST /parse arrives: get_page_content is entered, browser.py:58-68.
CallParse(c) ==
  /\ At(c, "idle")
  /\ Set(c, IF NeedsInit
            THEN [req[c] EXCEPT !.op = "parse", !.pc = "pw_start"]
            ELSE StartAttempt([req[c] EXCEPT !.op = "parse"], 1))
  /\ UNCHANGED shared

\* async_playwright().start() returns, browser.py:26.
PlaywrightStarted(c) ==
  /\ At(c, "pw_start")
  /\ started < MaxStarts
  /\ started' = started + 1
  /\ _playwright' = started + 1
  /\ Set(c, [req[c] EXCEPT !.pc = "launch"])
  /\ UNCHANGED << _browser, launched, _prompt_template,
                  OPENAI_MODEL, output2, probe >>

\* chromium.launch() returns, browser.py:27-31; a lazy caller goes on to its
\* first attempt.
BrowserLaunched(c) ==
  /\ At(c, "launch")
  /\ launched' = launched + 1
  /\ _browser' = launched + 1
  /\ Set(c, IF req[c].op = "initialize"
            THEN [req[c] EXCEPT !.pc = "done", !.init = "launched",
                                !.outcome = "returned"]
            ELSE StartAttempt([req[c] EXCEPT !.init = "launched"], 1))
  /\ UNCHANGED << _playwright, started, _prompt_template,
                  OPENAI_MODEL, output2, probe >>

\* start() or launch() raises.
InitializeFails(c) ==
  /\ At(c, "pw_start") \/ At(c, "launch")
  /\ Set(c, InitFailed(req[c]))
  /\ UNCHANGED shared

\* new_page() returns, browser.py:68.
NewPageOk(c) ==
  /\ At(c, "new_page")
  /\ Set(c, [req[c] EXCEPT !.page = TRUE, !.pc = "add_init_script",
               !.ledger = SetCur(req[c], [Cur(req[c]) EXCEPT !.opened = TRUE])])
  /\ UNCHANGED shared

\* add_init_script, route, set_viewport_size return, browser.py:71-79.
SetupOk(c) ==
  /\ \/ At(c, "add_init_script") /\ Set(c, [req[c] EXCEPT !.pc = "route"])
     \/ At(c, "route")
          /\ Set(c, [req[c] EXCEPT
                       !.pc = "set_viewport_size",
                       !.ledger = SetCur(req[c],
                                         [Cur(req[c]) EXCEPT !.routed = TRUE])])
     \/ At(c, "set_viewport_size") /\ Set(c, [req[c] EXCEPT !.pc = "goto"])
  /\ UNCHANGED shared

\* new_page, add_init_script, route, set_viewport_size or wait_for_selector
\* raises a playwright Error: none of the recognized classes.
BackendError(c) ==
  /\ req[c].pc \in {"new_page", "add_init_script", "route",
                    "set_viewport_size", "wait_for_selector"}
  /\ Set(c, Raise(req[c], "Error", req[c].pc))
  /\ UNCHANGED shared

\* request.resource_type as playwright reports it.
ResourceTypes ==
  { "document", "stylesheet", "image", "media", "font", "script",
    "texttrack", "xhr", "fetch", "eventsource", "websocket", "manifest",
    "other" }

\* Seeded fault: the second call is not under an else.
_should_block_resource_no_else(resource_type) ==
  IF resource_type \in { "image", "font", "stylesheet", "media" }
  THEN << "abort", "continue_" >>
  ELSE << "continue_" >>

\* _should_block_resource, browser.py:157-164: the calls it makes on the
\* route of a request of this type, in order.
_should_block_resource(resource_type) ==
  IF resource_type \in { "image", "font", "stylesheet", "media" }
  THEN << "abort" >>
  ELSE << "continue_" >>

\* The page of the current attempt has been told to navigate and is still
\* open: it is inside goto (browser.py:83) or past it, up to the close of
\* the finally block, the sleep of the handlers included.
Navigating(s) ==
  /\ s.page
  /\ \/ s.pc \in { "goto", "wait_for_selector", "settle_sleep", "content",
                   "inner_text" }
     \/ /\ s.pc = "retry_sleep"
        /\ Cur(s).fault \in { "nav_timeout", "nav_error", "wait_for_selector",
                              "content", "inner_text", "empty_page" }

\* The page issues a request.  With the handler of browser.py:76 installed
\* the request is intercepted and playwright runs the handler on its route;
\* without it the request goes out untouched.
PageRequest(c) ==
  /\ Navigating(req[c])
  /\ \E resource_type \in ResourceTypes :
       probe' = [fn |-> "_should_block_resource",
                 resource_type |-> resource_type,
                 attempt |-> req[c].attempt,
                 intercepted |-> Cur(req[c]).routed,
                 calls |-> IF Cur(req[c]).routed
                           THEN _should_block_resource(resource_type)
                           ELSE << >>]
  /\ UNCHANGED << _playwright, _browser, started, launched, _prompt_template,
                  req, OPENAI_MODEL, output2 >>

\* goto returns, browser.py:83-87.
GotoOk(c) ==
  /\ At(c, "goto")
  /\ Set(c, [req[c] EXCEPT !.pc = "wait_for_selector"])
  /\ UNCHANGED shared

\* goto times out, browser.py:88-92.
GotoTimeout(c) ==
  /\ At(c, "goto")
  /\ Set(c, NavFailed(req[c], "PlaywrightTimeoutError"))
  /\ UNCHANGED shared

\* goto raises anything else, browser.py:93-94.
GotoError(c) ==
  /\ At(c, "goto")
  /\ \E t \in NavFailures \ { "PlaywrightTimeoutError" } :
       Set(c, NavFailed(req[c], t))
  /\ UNCHANGED shared

\* wait_for_selector returns, browser.py:98; then the sleep of 0.5 s.
SelectorOk(c) ==
  /\ At(c, "wait_for_selector")
  /\ Set(c, [req[c] EXCEPT
               !.pc = "settle_sleep",
               !.ledger = SetCur(req[c], [Cur(req[c]) EXCEPT !.settle = "ok"])])
  /\ UNCHANGED shared

\* wait_for_selector times out: a warning, browser.py:101-102.
SelectorTimeout(c) ==
  /\ At(c, "wait_for_selector")
  /\ Set(c, SettleTimedOut(req[c]))
  /\ UNCHANGED shared

\* asyncio.sleep(0.5) returns, browser.py:100.
SettleSleepDone(c) ==
  /\ At(c, "settle_sleep")
  /\ Set(c, [req[c] EXCEPT !.pc = "content"])
  /\ UNCHANGED shared

\* page.content() returns, browser.py:106.
ContentOk(c) ==
  /\ At(c, "content")
  /\ \E h \in Htmls :
       Set(c, [req[c] EXCEPT !.html_content = h, !.pc = "inner_text"])
  /\ UNCHANGED shared

\* inner_text() returns, browser.py:108; validation and return follow.
InnerTextOk(c) ==
  /\ At(c, "inner_text")
  /\ \E t \in Texts : Set(c, Validate(req[c], t))
  /\ UNCHANGED shared

\* content() or inner_text() raises, browser.py:109-110.
ExtractionError(c) ==
  /\ At(c, "content") \/ At(c, "inner_text")
  /\ Set(c, Raise(req[c], "RuntimeError", req[c].pc))
  /\ UNCHANGED shared

\* asyncio.sleep(1) returns, browser.py:131 and 139; the finally block.
RetrySleepDone(c) ==
  /\ At(c, "retry_sleep")
  /\ Set(c, Finally([req[c] EXCEPT
                       !.ledger = SetCur(req[c], [Cur(req[c]) EXCEPT !.slept = TRUE])],
                    "continue"))
  /\ UNCHANGED shared

\* page.close() returns, or raises an Exception that is logged,
\* browser.py:146-149.
PageClosed(c) ==
  /\ At(c, "close")
  /\ Set(c, After(req[c], req[c].after))
  /\ UNCHANGED shared

\* The awaits inside the try statement of one attempt, browser.py:66-141.
AttemptAwaits ==
  {"new_page", "add_init_script", "route", "set_viewport_size", "goto",
   "wait_for_selector", "settle_sleep", "content", "inner_text",
   "retry_sleep"}

\* The task is cancelled at the await it is suspended at.  CancelledError is
\* no Exception: inside the try statement only the finally block runs, and
\* inside the finally block nothing catches it (browser.py:146-148).  A task
\* cancelled in new_page() was handed no page, so it has none to close.
Cancel(c) ==
  /\ \/ /\ req[c].pc \in AttemptAwaits
        /\ Set(c, Finally([req[c] EXCEPT !.cancelled_at = req[c].pc,
                                         !.html_content = NoHtml,
                                         !.text_content = NoText],
                          "cancel"))
     \/ /\ At(c, "close")
        /\ Set(c, After([req[c] EXCEPT !.cancelled_at = "close"], "cancel"))
     \/ /\ req[c].pc \in {"pw_start", "launch", "llm", "llm_retry"}
        /\ Set(c, [req[c] EXCEPT !.cancelled_at = req[c].pc, !.pc = "done",
                                 !.outcome = "cancelled"])
  /\ UNCHANGED shared

\* get_page_content raised: the except clauses of main.py:77-88.
RenderFailed(c) ==
  /\ At(c, "gpc_done")
  /\ req[c].outcome = "raised"
  /\ Set(c, [req[c] EXCEPT !.pc = "done",
                           !.status = HttpStatus(req[c].error.type)])
  /\ UNCHANGED shared

\* get_page_content was cancelled: no handler of parse_website applies.
RenderCancelled(c) ==
  /\ At(c, "gpc_done")
  /\ req[c].outcome = "cancelled"
  /\ Set(c, [req[c] EXCEPT !.pc = "done"])
  /\ UNCHANGED shared

\* get_page_content returned: extract_data up to its log line,
\* extractor.py:48-68.  The frame of get_page_content is gone.
Reduce(c) ==
  /\ At(c, "gpc_done")
  /\ RenderReturned(req[c])
  /\ LET s == [req[c] EXCEPT !.attempt = 0, !.page = FALSE, !.ledger = << >>,
                             !.last_error = NoError, !.after = "none",
                             !.warned = FALSE, !.outcome = "none",
                             !.cleaned_content =
                                ChooseContent(req[c].html_content,
                                              req[c].text_content)]
     IN  Set(c, IF ReductionLogged(s.text_content)
                THEN [s EXCEPT !.pc = "reduced"]
                ELSE Fails(s, "ZeroDivisionError", "reduction_pct"))
  /\ UNCHANGED shared

\* The rest of extract_data up to the await of the LLM call,
\* extractor.py:70-128: the content is written to output2.txt unless the
\* write fails, the prompt is loaded once and kept, and the request is built
\* with or without a temperature.
Prepare(c) ==
  /\ At(c, "reduced")
  /\ \E writable \in BOOLEAN :
       output2' = IF writable THEN req[c].cleaned_content ELSE output2
  /\ \E exists \in BOOLEAN :
       IF _prompt_template \/ exists
       THEN /\ _prompt_template' = TRUE
            /\ Set(c, [req[c] EXCEPT
                         !.pc = "llm",
                         !.temperature =
                            OPENAI_MODEL \notin models_without_temperature])
       ELSE /\ _prompt_template' = _prompt_template
            /\ Set(c, Fails(req[c], "FileNotFoundError", "prompt_file"))
  /\ UNCHANGED << _playwright, _browser, started, launched,
                  OPENAI_MODEL, probe >>

\* An LLM call is under way, extractor.py:125 or extractor.py:135.
AtLLM(c) == req[c].pc \in { "llm", "llm_retry" }

\* The request with this call entered in its log.
Logged(s, got, r, e) ==
  [s EXCEPT !.llm_log = Append(s.llm_log, Call(s.temperature, got, r, e))]

\* The LLM replies, extractor.py:143-161, main.py:75.
LLMReturn(c) ==
  /\ AtLLM(c)
  /\ \E r \in Replies :
       Set(c, ParseReply(Logged(req[c], "reply", r, NoApiError), r))
  /\ UNCHANGED shared

\* wait_for gives up on the LLM call, extractor.py:163-164: the text of
\* asyncio.TimeoutError is empty, so the first call is not repeated.
LLMTimeout(c) ==
  /\ AtLLM(c)
  /\ Set(c, Fails(Leaves(Logged(req[c], "timeout", NoReply, NoApiError)),
                  Reraise("asyncio.TimeoutError"), "llm_timeout"))
  /\ UNCHANGED shared

\* The LLM call raises an API error, extractor.py:129-140: the first call
\* is repeated without a temperature when the error says so; any other
\* error, and every error of the second call, leaves extract_data.
LLMError(c) ==
  /\ AtLLM(c)
  /\ \E e \in ApiErrors :
       LET s == Logged(req[c], "error", NoReply, e)
       IN  Set(c, IF At(c, "llm") /\ RetriesWithoutTemperature(e)
                  THEN [s EXCEPT !.pc = "llm_retry", !.temperature = FALSE]
                  ELSE Fails(Leaves(s), Reraise("APIError"), "api_error"))
  /\ UNCHANGED shared

\* The call is over and its locals are gone.
Return(c) ==
  /\ At(c, "done")
  /\ Set(c, IdleReq)
  /\ UNCHANGED shared

\* ------------------------------------------------------ specifications
\* The steps of get_page_content once the browser is there.
Render(c) ==
  \/ NewPageOk(c) \/ SetupOk(c) \/ BackendError(c)
  \/ GotoOk(c) \/ GotoTimeout(c) \/ GotoError(c)
  \/ SelectorOk(c) \/ SelectorTimeout(c) \/ SettleSleepDone(c)
  \/ ContentOk(c) \/ InnerTextOk(c) \/ ExtractionError(c)
  \/ RetrySleepDone(c) \/ PageClosed(c) \/ Cancel(c)

Run(c) ==
  \/ PlaywrightStarted(c) \/ BrowserLaunched(c) \/ InitializeFails(c)
  \/ Render(c)
  \/ RenderFailed(c) \/ RenderCancelled(c) \/ Reduce(c) \/ Prepare(c)
  \/ LLMReturn(c) \/ LLMTimeout(c) \/ LLMError(c) \/ Return(c)

\* get_page_content hands its pair to a caller that goes no further.
Handed(c) ==
  /\ At(c, "gpc_done")
  /\ RenderReturned(req[c])
  /\ Set(c, IdleReq)
  /\ UNCHANGED shared

\* Requests one after the other: a call begins when no other is in flight.
Next ==
  \E c \in Callers :
    \/ Quiet /\ CallInitialize(c)
    \/ Quiet /\ CallParse(c)
    \/ Run(c)

Spec == Init /\ [][Next]_vars

\* The BrowserManager under callers that arrive while others are in
\* flight.  Any number of them race through initialize(); to keep the state
\* space small one request at a time is scheduled beyond the first await of
\* its render, the others staying suspended in initialize() or at their
\* first new_page().  What a caller does with the pair get_page_content
\* returns is not part of this specification.
Parked(d) ==
  \/ req[d].pc \in {"idle", "pw_start", "launch"}
  \/ req[d].pc = "new_page" /\ req[d].attempt = 1

Solo(c) == \A d \in Callers \ {c} : Parked(d)

NextConcurrent ==
  \E c \in Callers :
    \/ CallInitialize(c) \/ CallParse(c)
    \/ PlaywrightStarted(c) \/ BrowserLaunched(c) \/ InitializeFails(c)
    \/ Solo(c) /\ Render(c)
    \/ Solo(c) /\ (RenderFailed(c) \/ RenderCancelled(c) \/ Handed(c))
    \/ Solo(c) /\ Return(c)

SpecConcurrent == Init /\ [][NextConcurrent]_vars

\* The functions of the preparser on their own: one call on every
\* argument of the bounded sets, in a service that handles no request.
InitPreparser ==
  /\ _playwright = 0
  /\ _browser = 0
  /\ started = 0
  /\ launched = 0
  /\ _prompt_template = FALSE
  /\ req = [c \in Callers |-> IdleReq]
  /\ OPENAI_MODEL = "gpt-4-turbo-preview"
  /\ output2 = NoStr
  /\ probe \in Probes

NextPreparser == TargetedCall \/ CleanCall \/ MainCall

SpecPreparser == InitPreparser /\ [][NextPreparser]_vars

\* The renders of requests one after the other, with the requests their
\* pages issue.  What a caller does with the pair get_page_content returns
\* is not part of this specification.
NextRoute ==
  \E c \in Callers :
    \/ Quiet /\ CallParse(c)
    \/ PlaywrightStarted(c) \/ BrowserLaunched(c) \/ InitializeFails(c)
    \/ Render(c)
    \/ PageRequest(c)
    \/ RenderFailed(c) \/ RenderCancelled(c) \/ Handed(c)
    \/ Return(c)

\* The model setting plays no part in a render.
InitRoute == Init /\ OPENAI_MODEL = "gpt-4-turbo-preview"

SpecRoute == InitRoute /\ [][NextRoute]_vars

\* ------------------------------------------------------------- claims
Entries(s) == {s.ledger[i] : i \in 1..Len(s.ledger)}

NavFaults == {"nav_timeout", "nav_error"}

UnrecognizedFaults ==
  {"new_page", "add_init_script", "route", "set_viewport_size",
   "wait_for_selector"}

\* C1: in every call of get_page_content, close() is called exactly once on
\* the page of every attempt that opened one, whether the attempt ends in
\* success, in a recognized failure or in an unrecognized exception; when the
\* call returns or raises, no page it opened is left without its close().
C1_PageClosedOncePerAttempt ==
  \A c \in Callers :
    LET s == req[c] IN
    /\ \A i \in 1..Len(s.ledger) :
         /\ s.ledger[i].closes <= 1
         /\ ~s.ledger[i].opened => s.ledger[i].closes = 0
         /\ (i < Len(s.ledger) /\ s.ledger[i].opened) => s.ledger[i].closes = 1
    /\ (s.pc = "gpc_done" /\ s.outcome \in {"returned", "raised"})
         => \A e \in Entries(s) : e.opened => e.closes = 1

\* An unrecognized exception ended the last attempt, both attempts had opened
\* a page, and the call has raised.
C1_Witness ==
  \E c \in Callers :
    LET s == req[c] IN
    /\ s.pc = "gpc_done" /\ s.outcome = "raised" /\ s.error.wrapped
    /\ Len(s.ledger) = 2
    /\ \A e \in Entries(s) : e.opened /\ e.closes = 1

\* C2: a call makes at most 2 attempts; when navigation failed in the first
\* and in the second, the call does not return, there is no third attempt,
\* and the error raised is the one of the second failure.
C2_TwoAttemptsAtMost ==
  \A c \in Callers :
    LET s == req[c] IN
    /\ Len(s.ledger) <= 2
    /\ s.attempt <= 2
    /\ ( /\ s.pc = "gpc_done"
         /\ Len(s.ledger) = 2
         /\ s.ledger[1].fault \in NavFaults
         /\ s.ledger[2].fault \in NavFaults )
       => /\ s.outcome # "returned"
          /\ s.cancelled_at = "none" => s.outcome = "raised"
          /\ s.outcome = "raised" =>
               /\ s.error.attempt = 2
               /\ s.error.cause = s.ledger[2].fault
               /\ s.error.type = IF s.ledger[2].fault = "nav_timeout"
                                 THEN "TimeoutError" ELSE "ValueError"

\* Navigation timed out in the first attempt and failed otherwise in the
\* second; the call raised the ValueError of the second.
C2_Witness ==
  \E c \in Callers :
    LET s == req[c] IN
    /\ s.pc = "gpc_done" /\ s.outcome = "raised"
    /\ Len(s.ledger) = 2
    /\ s.ledger[1].fault = "nav_timeout"
    /\ s.ledger[2].fault = "nav_error"
    /\ s.error.type = "ValueError" /\ s.error.attempt = 2

\* C3: when the last attempt fails (and the call is not cancelled), the call
\* raises, and what it raises is the error kept for that last attempt: its
\* cause and its attempt are those of the last failure, it is never the
\* error of the first attempt nor the generic error of browser.py:155.
C3_LastErrorRaised ==
  \A c \in Callers :
    LET s == req[c] IN
    ( /\ s.pc = "gpc_done"
      /\ s.cancelled_at = "none"
      /\ Len(s.ledger) = max_attempts
      /\ Cur(s).fault # "none" )
    => /\ s.outcome = "raised"
       /\ s.error # GenericError
       /\ s.error.attempt = max_attempts
       /\ s.error.cause = Cur(s).fault
       /\ s.error.wrapped <=> Cur(s).fault \in UnrecognizedFaults

\* The first attempt timed out in navigation, the second returned a page too
\* short, and the call raised the error of the second.
C3_Witness ==
  \E c \in Callers :
    LET s == req[c] IN
    /\ s.pc = "gpc_done" /\ s.outcome = "raised"
    /\ Len(s.ledger) = 2
    /\ s.ledger[1].fault = "nav_timeout"
    /\ s.ledger[2].fault = "empty_page"
    /\ s.error = Err("ValueError", "empty_page", 2, FALSE)

\* C4: however requests arrive, at most one browser process is launched
\* while none is closed.
C4_SingleBrowserProcess == launched <= 1

\* C5: when a call is cancelled at the navigation wait, the settle wait, the
\* content extraction, the retry delay or the close of the page, close() has
\* been called once on the page the current attempt opened.
CancelPoints ==
  {"goto", "wait_for_selector", "settle_sleep", "content", "inner_text",
   "retry_sleep", "close"}

C5_CancelledPageReleased ==
  \A c \in Callers :
    LET s == req[c] IN
    ( /\ s.pc = "gpc_done"
      /\ s.outcome = "cancelled"
      /\ s.cancelled_at \in CancelPoints )
    => \A e \in Entries(s) : e.opened => e.closes = 1

\* A call cancelled during the retry delay of its first attempt, whose page
\* has had its close().
C5_Witness ==
  \E c \in Callers :
    LET s == req[c] IN
    /\ s.pc = "gpc_done" /\ s.outcome = "cancelled"
    /\ s.cancelled_at = "retry_sleep"
    /\ Len(s.ledger) = 1
    /\ Cur(s).opened /\ Cur(s).closes = 1

\* C6: with requests one after the other, at most one browser process is ever
\* launched, and once the browser handle is set no step changes the browser
\* or playwright handle or starts or launches anything.
C6_InitializeIdempotent ==
  /\ [](launched <= 1)
  /\ [][_browser # 0 =>
          /\ _browser' = _browser
          /\ _playwright' = _playwright
          /\ launched' = launched
          /\ started' = started]_vars

\* A call of initialize() that found the browser and returned at once.
C6_Witness ==
  \E c \in Callers :
    /\ req[c].pc = "done" /\ req[c].op = "initialize"
    /\ req[c].init = "skipped"
    /\ _browser = 1 /\ launched = 1

\* C7: a call returns only HTML of 100 characters or more; an attempt whose
\* HTML is shorter fails with the ValueError of the empty page, and an
\* attempt whose HTML is long enough does not fail validation however short
\* its text is: a short text only sets the warning.
C7_HtmlThreshold ==
  \A c \in Callers :
    LET s == req[c] IN
    /\ \A e \in Entries(s) :
         e.html # -1 => (e.html < 100 <=> e.fault = "empty_page")
    /\ (Len(s.ledger) > 0 /\ Cur(s).fault = "empty_page")
         => s.last_error = Err("ValueError", "empty_page", s.attempt, FALSE)
    /\ (s.pc = "gpc_done" /\ s.outcome = "returned")
         => /\ s.html_content.len >= 100
            /\ Cur(s).html = s.html_content.len
            /\ s.text_content \in Texts
            /\ s.warned <=> s.text_content.strip < 10

\* A call that returned HTML of exactly 100 characters with an empty text.
C7_Witness ==
  \E c \in Callers :
    LET s == req[c] IN
    /\ s.pc = "gpc_done" /\ s.outcome = "returned"
    /\ s.html_content.len = 100
    /\ s.text_content.len = 0
    /\ s.warned

\* C8: a failure of the first attempt, of whatever kind, is followed by the
\* retry delay and then by exactly one more attempt; a second attempt is made
\* only after that; a failure outside the recognized classes is kept as a
\* wrapped RuntimeError and retried the same way.
C8_EveryFailureRetriedOnce ==
  \A c \in Callers :
    LET s == req[c]
        n == Len(s.ledger)
    IN
    /\ n >= 2 => (n = 2 /\ s.ledger[1].fault # "none" /\ s.ledger[1].slept)
    /\ (n >= 1 /\ s.ledger[1].fault # "none" /\ s.cancelled_at = "none")
         => \/ n = 1 /\ s.pc = "retry_sleep"
            \/ n = 1 /\ s.pc = "close" /\ s.ledger[1].slept
            \/ n = 2
    /\ s.last_error # NoError =>
         /\ s.last_error.wrapped <=> s.last_error.cause \in UnrecognizedFaults
         /\ s.last_error.wrapped => s.last_error.type = "RuntimeError"

\* new_page() raised in the first attempt; after the delay the second attempt
\* succeeded.
C8_Witness ==
  \E c \in Callers :
    LET s == req[c] IN
    /\ s.pc = "gpc_done" /\ s.outcome = "returned"
    /\ Len(s.ledger) = 2
    /\ s.ledger[1].fault = "new_page" /\ s.ledger[1].slept

\* C9: the content extract_data goes on with is the output of Strategy C on
\* the text with window 200 when that output, stripped, has 100 characters or
\* more, and the output of Strategy A otherwise; an empty output of C is
\* never the content.
C9_TargetedThenMain ==
  \A c \in Callers :
    LET s == req[c]
        C == extract_targeted_content(s.text_content, 200)
        A == extract_main_content(s.html_content, s.text_content)
    IN  s.pc \in {"reduced", "llm"} =>
          /\ s.cleaned_content = IF C.strip >= 100 THEN C ELSE A
          /\ C.len = 0 => s.cleaned_content.src = "A"

\* Strategy C returned 100 characters of which 99 are left once stripped: the
\* LLM call is made with the output of Strategy A.
C9_Witness ==
  \E c \in Callers :
    LET s == req[c] IN
    /\ s.pc = "llm"
    /\ s.text_content.tokLen > 0
    /\ extract_targeted_content(s.text_content, 200).len = 100
    /\ extract_targeted_content(s.text_content, 200).strip = 99
    /\ s.cleaned_content.src = "A"

\* C10: no request ends in an error raised by the reduction stage or its
\* provenance bookkeeping: whatever get_page_content returned, extract_data
\* goes on to the LLM call.
C10_ReductionNeverFails ==
  \A c \in Callers :
    ~(req[c].pc = "done" /\ req[c].error.cause = "reduction_pct")

\* The last LLM call of a request, and what it gave.
LastCall(s) == s.llm_log[Len(s.llm_log)]

Replied(s) ==
  s.pc = "done" /\ s.llm_log # << >> /\ LastCall(s).got = "reply"

\* C11: a request whose LLM reply is empty, or is not valid JSON even after
\* the fenced-block fallback, ends right after that reply with a server
\* error (a 5xx status), not with a client error.
C11_ReplyErrorsAreServerErrors ==
  \A c \in Callers :
    LET s == req[c] IN
    Replied(s) /\ s.error.cause \in {"empty_response", "invalid_json"} =>
      /\ s.outcome = "raised"
      /\ s.status >= 500

\* C12: one extract_data call makes at most two LLM calls; a second one is
\* made only after a first that failed with an error naming the temperature
\* as unsupported, and its request holds no temperature; every other failure
\* of a call, and every failure of the second call, ends the request.
C12_AtMostTwoLLMCalls ==
  \A c \in Callers :
    LET s == req[c]
        log == s.llm_log
        asks == log # << >> /\ log[1].got = "error"
                  /\ log[1].error.temperature /\ log[1].error.unsupported
    IN  /\ Len(log) <= 2
        /\ s.pc = "llm_retry" => Len(log) = 1 /\ asks /\ ~s.temperature
        /\ Len(log) = 2 => asks /\ ~log[2].temperature
        /\ log # << >> /\ LastCall(s).got # "reply"
             /\ ~(Len(log) = 1 /\ asks)
             => s.pc = "done" /\ s.outcome = "raised"

\* The first call carried a temperature and was refused for it, the second
\* carried none and failed too: the request failed after two calls.
C12_Witness ==
  \E c \in Callers :
    LET s == req[c] IN
    /\ s.pc = "done" /\ s.outcome = "raised"
    /\ Len(s.llm_log) = 2
    /\ s.llm_log[1].temperature
    /\ s.llm_log[2].got = "error"

\* The replies C13 is about: not empty, not valid JSON as a whole.
Fenced(s) == Replied(s) /\ LastCall(s).reply.text = "other"

TargetedDone == probe.fn = "extract_targeted_content" /\ probe.done

Windowed ==
  { Expand(m, probe.window, NormLen(probe.words)) : m \in Scan(probe.words) }

Inside(x, r) == r.lo <= x.lo /\ x.hi <= r.hi

\* C14: the regions Strategy C emits are pairwise disjoint, do not touch and
\* come in increasing start order; every expanded window lies in exactly one
\* region, two windows that overlap or touch lie in the same one, and a
\* region covers nothing but its windows; the header of a region lists the
\* labels of its windows, each once, in sorted order.
C14_RegionsMerged ==
  TargetedDone =>
    LET R == probe.ret
        I == 1..Len(R)
    IN  /\ \A i, j \in I : i < j => R[i].hi < R[j].lo
        /\ \A x \in Windowed :
             /\ \E i \in I : Inside(x, R[i])
             /\ \A i, j \in I : Inside(x, R[i]) /\ Inside(x, R[j]) => i = j
        /\ \A x, y \in Windowed :
             x.lo <= y.hi /\ y.lo <= x.hi =>
               \E i \in I : Inside(x, R[i]) /\ Inside(y, R[i])
        /\ \A i \in I :
             LET h == R[i].header
                 mine == { x \in Windowed : Inside(x, R[i]) }
             IN  /\ \A q \in R[i].lo..R[i].hi :
                      \E x \in mine : x.lo <= q /\ q <= x.hi
                 /\ { h[k] : k \in 1..Len(h) } = UNION { x.labels : x \in mine }
                 /\ \A k, l \in 1..Len(h) :
                      k < l => LabelRank(h[k]) < LabelRank(h[l])

\* Two matches with different labels whose windows only touch, and a third
\* label: one region with the three labels in its header.
C14_Witness ==
  /\ TargetedDone
  /\ \E x, y \in Windowed : x.hi = y.lo /\ x.labels # y.labels
  /\ Len(probe.ret) = 1
  /\ Len(probe.ret[1].header) = 3

\* C15: for a text in which no pattern matches anything, Strategy C returns
\* the empty string: it emits no region.
C15_NoTokensEmptyString ==
  TargetedDone /\ (\A i \in 1..Len(probe.words) : probe.words[i].matches = {})
    => probe.ret = << >>

\* A text of three words without any target token gave the empty string.
C15_Witness ==
  /\ TargetedDone
  /\ Len(probe.words) = 3
  /\ \A i \in 1..3 : probe.words[i].matches = {}
  /\ probe.ret = << >>

CleanDone == probe.fn = "clean_html_for_llm" /\ probe.done

MainDone == probe.fn = "extract_main_content" /\ probe.done

\* C17: when the readability extractor is unavailable or finds nothing and
\* a parser is available, the text returned is that of the first element in
\* document order, among those left after the removal of the boilerplate,
\* that matches main, article, role=main, .content or #content, and that of
\* body only when no element matches.
C17_FirstInDocumentOrder ==
  MainDone /\ probe.caps.trafilatura # "found"
           /\ (probe.caps.selectolax \/ probe.caps.bs4) =>
    LET doc == probe.doc
        match == { i \in Remaining(doc, Boilerplate) :
                     \/ doc[i].shape.tag \in { "main", "article" }
                     \/ doc[i].shape.role = "main"
                     \/ doc[i].shape.class = "content"
                     \/ doc[i].shape.id = "content" }
    IN  IF match = {}
        THEN probe.ret.src = "body"
        ELSE /\ probe.ret.src = "container"
             /\ probe.ret.elem \in match
             /\ \A i \in match : probe.ret.elem <= i

\* C18: without trafilatura, selectolax and bs4, extract_main_content
\* returns the visible text as it is: as many characters as it was given.
C18_TextUnchanged ==
  MainDone /\ probe.caps.trafilatura = "none"
           /\ ~probe.caps.selectolax /\ ~probe.caps.bs4 =>
    probe.ret.src = "text" /\ probe.ret.len = probe.text.len

\* C19: once no request is in flight, nothing a request rendered or reduced
\* is kept anywhere: the file output2.txt holds no content.
C19_NoResidue == Quiet => output2 = NoStr

\* The failures of a request by class, as the error taxonomy has them.
TimeoutClass == { "nav_timeout", "llm_timeout" }

ValidationClass == { "nav_error", "empty_page" }

\* C20: a request that returns ends with 200 and the extracted JSON; a
\* request that fails ends with 504 when the failure is of the timeout
\* class, with 400 when it is of the validation class, and with 500 for
\* every other failure, an unusable LLM reply included.
C20_StatusByErrorClass ==
  \A c \in Callers :
    LET s == req[c] IN
    s.op = "parse" /\ s.pc = "done" =>
      /\ s.outcome = "returned" => s.status = 200 /\ s.result # 0
      /\ s.outcome = "raised" =>
           s.status = CASE s.error.cause \in TimeoutClass -> 504
                        [] s.error.cause \in ValidationClass -> 400
                        [] OTHER -> 500

\* C21: a goto that times out reaches the retry logic as a TimeoutError and
\* a goto that fails in any other way as a ValueError: the attempt is
\* recorded as a navigation timeout or a navigation error, and the error
\* kept for it is of that class, never the wrapped RuntimeError of an
\* unrecognized exception.
C21_NavigationClassified ==
  \A c \in Callers :
    LET s == req[c] IN
    \A i \in 1..Len(s.ledger) :
      LET e == s.ledger[i]
          timeout == e.nav = "PlaywrightTimeoutError"
      IN  e.nav # "none" =>
            /\ e.fault = IF timeout THEN "nav_timeout" ELSE "nav_error"
            /\ i = Len(s.ledger) =>
                 /\ s.last_error.attempt = i
                 /\ s.last_error.type =
                      IF timeout THEN "TimeoutError" ELSE "ValueError"
                 /\ ~s.last_error.wrapped

\* The goto of attempt 1 timed out and the goto of attempt 2 raised a
\* playwright Error: the call raised a ValueError.
C21_Witness ==
  \E c \in Callers :
    LET s == req[c] IN
    /\ s.pc = "gpc_done"
    /\ Len(s.ledger) = 2
    /\ s.ledger[1].nav = "PlaywrightTimeoutError"
    /\ s.ledger[2].nav = "Error"
    /\ s.error.type = "ValueError"

\* C22: an attempt whose wait for the body selector timed out is not failed
\* by it: it goes on to the extraction and the validation, fails only if
\* one of these fails, and otherwise returns.
C22_SettleTimeoutNotFatal ==
  \A c \in Callers :
    LET s == req[c] IN
    \A i \in 1..Len(s.ledger) :
      LET e == s.ledger[i] IN
      e.settle = "timeout" =>
        /\ e.fault \in { "none", "content", "inner_text", "empty_page" }
        /\ i = Len(s.ledger) /\ e.fault = "none" /\ s.cancelled_at = "none" =>
             /\ s.pc \in { "content", "inner_text", "close", "gpc_done" }
             /\ s.pc \in { "close", "gpc_done" } => e.html >= MinHtmlLen
             /\ s.pc = "close" => s.after = "return"
             /\ s.pc = "gpc_done" => s.outcome = "returned"

\* Attempt 1 failed, the settle wait of attempt 2 timed out, and the call
\* returned the page.
C22_Witness ==
  \E c \in Callers :
    LET s == req[c] IN
    /\ s.pc = "gpc_done" /\ s.outcome = "returned"
    /\ Len(s.ledger) = 2
    /\ s.ledger[2].settle = "timeout"
    /\ s.html_content.len >= MinHtmlLen

\* The request is in extract_data past the reduction, extractor.py:70-140.
Reduced(s) == s.pc \in { "reduced", "llm", "llm_retry" }

\* C23: the stages of a request follow one another.  The reduction starts
\* only from a render that returned, with every page the render opened
\* closed; an LLM call starts only from a finished reduction; a request
\* that is past the reduction holds the page the render returned and the
\* content the reduction chose, and no error; and a request that has called
\* the LLM has no error of the render or of the reduction.
C23_StagesInOrder ==
  /\ [](\A c \in Callers :
          LET s == req[c] IN
          /\ Reduced(s) =>
               /\ s.html_content.len >= MinHtmlLen
               /\ s.cleaned_content # NoStr
               /\ s.error = NoError
          /\ s.llm_log # << >> =>
               s.error.cause \in { "none", "llm_timeout", "api_error",
                                   "empty_response", "invalid_json" })
  /\ [][\A c \in Callers :
          LET s == req[c]
              t == req'[c]
          IN  /\ (t.cleaned_content # NoStr /\ s.cleaned_content = NoStr) =>
                   /\ s.pc = "gpc_done" /\ s.outcome = "returned"
                   /\ \A e \in Entries(s) : e.opened => e.closes = 1
              /\ (t.pc = "llm" /\ s.pc # "llm") => s.pc = "reduced"
              /\ Len(t.llm_log) > Len(s.llm_log) => AtLLM(c)]_vars

\* The render returned, the reduction chose a content and the first LLM
\* call is under way.
C23_Witness ==
  \E c \in Callers :
    LET s == req[c] IN
    /\ s.pc = "llm" /\ s.llm_log = << >>
    /\ s.html_content.len >= MinHtmlLen
    /\ s.cleaned_content # NoStr

\* C24: in every attempt the handler is installed on the page before goto
\* is called, so every request a page issues is intercepted; and the
\* handler makes exactly one call on the route of each: abort() when the
\* type is image, font, stylesheet or media, continue_() with no override
\* otherwise.
C24_RequestsResolvedOnce ==
  /\ \A c \in Callers :
       LET s == req[c] IN
       /\ Navigating(s) => Cur(s).routed
       /\ \A e \in Entries(s) :
            (e.nav # "none" \/ e.settle # "none" \/ e.html # -1) => e.routed
  /\ probe # NoProbe =>
       /\ probe.intercepted
       /\ Len(probe.calls) = 1
       /\ probe.calls[1] = "abort"
            <=> probe.resource_type \in { "image", "font", "stylesheet",
                                          "media" }
       /\ probe.calls[1] = "continue_"
            <=> probe.resource_type \in
                  { "document", "script", "texttrack", "xhr", "fetch",
                    "eventsource", "websocket", "manifest", "other" }

\* The page of a second attempt asked for a media file while the call slept
\* after a navigation timeout, and the request was aborted.
C24_Witness ==
  /\ probe # NoProbe
  /\ probe.resource_type = "media" /\ probe.calls = << "abort" >>
  /\ probe.attempt = 2
  /\ \E c \in Callers :
       /\ req[c].pc = "close" /\ req[c].attempt = 2
       /\ Cur(req[c]).nav = "PlaywrightTimeoutError"

\* A script was let through unchanged while the page loaded.
C24_WitnessContinued ==
  /\ probe # NoProbe
  /\ probe.resource_type = "script" /\ probe.calls = << "continue_" >>
  /\ \E c \in Callers : req[c].pc = "goto"

\* The attempts of the call whose page has been opened and whose close()
\* has not yet finished.
OpenPages(s) ==
  { i \in 1..Len(s.ledger) :
      /\ s.ledger[i].opened
      /\ \/ s.ledger[i].closes = 0
         \/ i = Len(s.ledger) /\ s.pc = "close" }

\* C25: the page variable of an attempt holds only a page that this attempt
\* opened; when attempt 2 has begun, attempt 1 has slept its delay and the
\* close() of its page, if it opened one, has been called once and is over;
\* and a call never has more than one page open.
C25_FreshPagePerAttempt ==
  \A c \in Callers :
    LET s == req[c] IN
    /\ s.page => (Len(s.ledger) > 0 /\ Cur(s).opened)
    /\ Len(s.ledger) = 2 =>
         /\ s.ledger[1].slept
         /\ s.ledger[1].opened => s.ledger[1].closes = 1
         /\ 1 \notin OpenPages(s)
    /\ Cardinality(OpenPages(s)) <= 1
    /\ \A e \in Entries(s) : e.closes <= 1 /\ (e.closes = 1 => e.opened)

\* Attempt 1 opened a page and failed; its page is closed and attempt 2 is
\* navigating with a page of its own.
C25_Witness ==
  \E c \in Callers :
    LET s == req[c] IN
    /\ s.pc = "goto" /\ s.attempt = 2 /\ s.page
    /\ s.ledger[1].opened /\ s.ledger[1].closes = 1 /\ s.ledger[1].slept
    /\ s.ledger[2].opened /\ s.ledger[2].closes = 0
    /\ OpenPages(s) = {2}

\* A request whose lazy initialization failed and that has not returned yet.
LazyInitFailed(s) == s.op = "parse" /\ s.init = "failed"

\* The part of C26 on the call itself: the failure of the lazy
\* initialization leaves get_page_content at once, with no attempt started,
\* no page opened and nothing retried, and parse_website answers 500.
C26_NoAttemptAfterInitFailure ==
  \A c \in Callers :
    LET s == req[c] IN
    LazyInitFailed(s) =>
      /\ s.pc = "done" /\ s.outcome = "raised"
      /\ s.error.cause = "initialize" /\ s.status = 500
      /\ s.attempt = 0 /\ s.ledger = << >> /\ ~s.page

\* C26: when the lazy initialization of a call fails, the failure leaves
\* get_page_content at once, with no attempt started, no page opened and
\* nothing retried, and the browser handle is still absent, so that the next
\* call initializes again.
C26_InitFailureLeavesNotReady ==
  /\ C26_NoAttemptAfterInitFailure
  /\ \A c \in Callers : LazyInitFailed(req[c]) => NeedsInit

====
